---- MODULE Spec2Model ----
(***************************************************************************)
(* State-machine model of smart-rom-cache: the cache manager               *)
(* (src/src/cache/engine.py), the EmulationStation integration layer       *)
(* (src/src/integration/emulationstation.py) and the REST routes that      *)
(* drive them (src/src/api/app.py).                                        *)
(*                                                                         *)
(* Sizes are counted in one unit (MB); the configuration's *_gb values are *)
(* held in the same unit, so max_size_gb * 1024**3 and size_bytes compare  *)
(* directly.  time.time() is a logical clock that advances on every read   *)
(* that is stored.  The SQLite table cache_entries is `index`: the         *)
(* committed rows.  A cleanup_cache pass keeps its cursor and its          *)
(* uncommitted DELETEs on one connection from the SELECT to the commit;    *)
(* SQLite's file lock makes every other writer wait for that commit, while *)
(* readers on other connections keep seeing the committed rows.            *)
(***************************************************************************)
EXTENDS Integers, Sequences, FiniteSets, TLC

\* ---------------------------------------------------------------- bounds
\* Number of entry-point invocations explored in one behaviour.
MaxOps == 3
\* The number of calls in a run of the eviction scenarios.
MaxEvictOps == 4

\* ------------------------------------------------------ program constants
SmallFileLimit == 100
LargeFileLimit == 5120
RecentBonus == 50
FavoriteBonus == 100
SmallFileBonus == 10

\* ------------------------------------------------------------ the domain
RomIds == {"nes_super_mario_bros", "nes_legend_of_zelda"}
\* The ids _generate_rom_id gives "Super Mario Bros. 2.nes" and
\* "Super Mario Bros. 3.nes": rom ids that carry a dot.
SequelIds == {"nes_super_mario_bros._2", "nes_super_mario_bros._3"}
\* The event loop that runs the REST routes and their background tasks, a
\* thread that calls the manager and the integration layer directly, and
\* two threads that deliver access events.
Threads == {"api", "w1", "w2"}
Workers == {"w1"}
Accessors == {"w1", "w2"}

None == "none"
\* A path with no file, and a file of n units
Absent == [exists |-> FALSE]
File(n) == [exists |-> TRUE, size |-> n]
NoEntry == [present |-> FALSE]
\* An optional request field: not supplied (Python None), or a value
Nothing == [some |-> FALSE]
Some(v) == [some |-> TRUE, v |-> v]
Optional(S) == {Nothing} \cup {Some(v) : v \in S}

\* Bytes the remote server really sends for each asset.
ActualSize(r) == IF r = "nes_super_mario_bros" THEN 40
                 ELSE IF r = "nes_super_mario_bros._2" THEN 30
                 ELSE IF r = "nes_super_mario_bros._3" THEN 35
                 ELSE 200

\* Content-Length values a response for r can carry: the real length, or
\* 0 when the header is absent (chunked transfer).
Advertised(r) == {0, ActualSize(r)}

\* rom_id.split('_')[0]
PlatformOf(r) == IF r \in {"nes_super_mario_bros", "nes_legend_of_zelda"}
                                \cup SequelIds
                   THEN "nes" ELSE "unknown"

\* CacheConfig.platforms_priority defaults
platforms_priority ==
  [nes |-> 10, snes |-> 10, gb |-> 10, gbc |-> 10, gba |-> 9, genesis |-> 8,
   n64 |-> 7, psx |-> 6, ps2 |-> 5, gamecube |-> 4, wii |-> 3, xbox |-> 2,
   ps3 |-> 1, xbox360 |-> 1]

\* EmulationStationIntegration.rom_servers in iteration order, and the
\* platforms each server's platform_paths covers.
Servers == <<"primary", "mirror">>
platform_paths == [primary |-> {"nes"}, mirror |-> {"nes", "psx"}]
ProbeResults == {"200", "404", "error"}

\* _get_server_rom_list's listing for a platform, as rom ids
\* (_generate_rom_id of each filename).
ServerRomList(platform) ==
  IF platform = "nes"
    THEN <<"nes_super_mario_bros", "nes_legend_of_zelda">> ELSE <<>>

\* Values the configuration update is exercised with.
MaxSizeChoices == {0, 300}
TargetChoices == {50, 300}

\* The configuration the manager is constructed with, after the test
\* suites' CacheConfig(max_size_gb=0.1, cleanup_threshold=0.7,
\* min_free_space_gb=0.01); cleanup_threshold is held in percent.
InitConfig == [max_size |-> 100, cleanup_threshold |-> 70, min_free_space |-> 10,
               favorite_protection |-> TRUE, strategy |-> "symlink"]

\* ------------------------------------------------------------ sequences
RECURSIVE SumSeq(_)
SumSeq(s) == IF s = <<>> THEN 0 ELSE Head(s) + SumSeq(Tail(s))

RECURSIVE SetToSeq(_)
SetToSeq(S) == IF S = {} THEN <<>>
               ELSE LET x == CHOOSE y \in S : TRUE
                    IN <<x>> \o SetToSeq(S \ {x})

Range(s) == {s[i] : i \in DOMAIN s}

\* ---------------------------------------------------------------- paths
\* PurePath.suffix of a name: what follows its last dot, with the dot,
\* when the dot is neither the first nor the last character.
PathSuffix(name) ==
  IF name = "nes_super_mario_bros._2" THEN "._2"
  ELSE IF name = "nes_super_mario_bros._3" THEN "._3"
  ELSE ""
\* PurePath.stem of a name: the name without its suffix
PathStem(name) ==
  IF name \in SequelIds THEN "nes_super_mario_bros" ELSE name

\* A file of the cache directory, by the stem and the suffix of its name.
\* ROMCacheManager.get_cache_path: cache_dir / rom_id
get_cache_path(r) == <<"cache", PathStem(r), PathSuffix(r)>>
\* cache_path.with_suffix('.tmp'): the suffix of the name is replaced
temp_path(r) == <<"cache", PathStem(r), ".tmp">>

\* What a thread has open: nothing, or a file that has been unlinked, or
\* the path at which the file it opened is now.
NoFd == <<>>
Gone == <<"gone">>

\* The filename the server lists for each rom (lines 347-350), and the
\* path under es_roms_dir at which the rom is exposed (line 327):
\* platform_dir / rom_filename.
FilenameOf(r) == IF r = "nes_super_mario_bros" THEN "Super Mario Bros.nes"
                                               ELSE "Legend of Zelda.nes"
exposed_path(r) == <<"roms", PlatformOf(r), FilenameOf(r)>>

\* Path.stem of a filename
stem(filename) ==
  IF filename = "Super Mario Bros.nes" THEN "Super Mario Bros"
  ELSE IF filename = "Legend of Zelda.nes" THEN "Legend of Zelda"
  ELSE filename

\* ROMAccessHandler._extract_rom_id: file_path.stem
extract_rom_id(file_path) == stem(file_path[3])

\* The ids handle_rom_access is called with: rom ids, and what the access
\* handler extracts from the exposed paths.
AccessIds == RomIds \cup {extract_rom_id(exposed_path(r)) : r \in RomIds}

Paths == {get_cache_path(r) : r \in AccessIds}
           \cup {temp_path(r) : r \in RomIds}
           \cup {exposed_path(r) : r \in RomIds}

\* LinkStrategy, lines 25-31
LinkStrategy == {"symlink", "hardlink", "junction", "copy", "devmode"}

\* A symbolic link at a path, pointing at path `to`
Symlink(to) == [exists |-> TRUE, link |-> to]
\* A directory (or junction) at a path
Dir == [exists |-> TRUE, dir |-> TRUE]

VARIABLES
  index,        \* committed rows of cache_entries, by rom_id
  files,        \* the file system: path -> file, symbolic link, or Absent
  config,       \* the CacheConfig instance, and the linker's strategy
  clock,        \* time.time()
  th,           \* per thread: program counter and locals
  cl,           \* the cleanup_cache pass holding the database, or idle
  downloading_roms,  \* EmulationStationIntegration.downloading_roms
  download_lock,     \* owner of EmulationStationIntegration.download_lock
  api_downloading,   \* ROMCacheAPI.downloading_roms: rom_id -> status
  ops           \* entry-point invocations so far

vars == <<index, files, config, clock, th, cl, downloading_roms,
          download_lock, api_downloading, ops>>

\* ------------------------------------------------------------- the store
Present(idx) == {r \in DOMAIN idx : idx[r].present}

\* SELECT COUNT(*), SUM(size_bytes) FROM cache_entries, and the derived
\* figures of get_cache_stats.
TotalSize(idx) == SumSeq([i \in 1..Cardinality(Present(idx)) |->
                            idx[SetToSeq(Present(idx))[i]].size_bytes])

\* get_cache_stats reading the total from the COUNT(*) column
get_cache_stats_count_column(idx, cfg) ==
  LET total == Cardinality(Present(idx))
  IN [total_files   |-> Cardinality(Present(idx)),
      total_size    |-> total,
      max_size      |-> cfg.max_size,
      usage_num     |-> IF cfg.max_size > 0 THEN total * 100 ELSE 0,
      usage_den     |-> IF cfg.max_size > 0 THEN cfg.max_size ELSE 1,
      free_space    |-> cfg.max_size - total]

get_cache_stats(idx, cfg) ==
  LET total == TotalSize(idx)
  IN [total_files   |-> Cardinality(Present(idx)),
      total_size    |-> total,
      max_size      |-> cfg.max_size,
      \* (total / max) * 100 if max > 0 else 0, kept as the pair it is
      \* compared through: usage_percent = usage_num / usage_den
      usage_num     |-> IF cfg.max_size > 0 THEN total * 100 ELSE 0,
      usage_den     |-> IF cfg.max_size > 0 THEN cfg.max_size ELSE 1,
      free_space    |-> cfg.max_size - total]

\* is_cached: the blob path exists on disk
is_cached(fs, r) == fs[get_cache_path(r)] # Absent

\* needs_cleanup: usage_percent > cleanup_threshold * 100
needs_cleanup(idx, cfg) ==
  LET s == get_cache_stats(idx, cfg)
  IN s.usage_num > cfg.cleanup_threshold * s.usage_den

\* calculate_priority_score without the favorite term of lines 127-128
calculate_priority_score_no_favorite(size_bytes, is_favorite, hours_since_access, platform) ==
  (IF platform \in DOMAIN platforms_priority
     THEN platforms_priority[platform] * 10 ELSE 0)
  + (IF hours_since_access < 24 THEN RecentBonus
     ELSE IF hours_since_access < 168 THEN 20 ELSE 0)
  + (IF size_bytes < SmallFileLimit THEN SmallFileBonus
     ELSE IF size_bytes > LargeFileLimit THEN -10 ELSE 0)

\* calculate_priority_score(entry, platform) at hours_since_access hours
calculate_priority_score(size_bytes, is_favorite, hours_since_access, platform) ==
  (IF platform \in DOMAIN platforms_priority
     THEN platforms_priority[platform] * 10 ELSE 0)
  + (IF hours_since_access < 24 THEN RecentBonus
     ELSE IF hours_since_access < 168 THEN 20 ELSE 0)
  + (IF is_favorite THEN FavoriteBonus ELSE 0)
  + (IF size_bytes < SmallFileLimit THEN SmallFileBonus
     ELSE IF size_bytes > LargeFileLimit THEN -10 ELSE 0)

\* ORDER BY priority_score ASC, last_accessed ASC
RowBefore(idx, a, b) ==
  \/ idx[a].priority_score < idx[b].priority_score
  \/ /\ idx[a].priority_score = idx[b].priority_score
     /\ idx[a].last_accessed < idx[b].last_accessed

RECURSIVE SortRows(_, _)
SortRows(idx, S) ==
  IF S = {} THEN <<>>
  ELSE LET m == CHOOSE a \in S : \A b \in S \ {a} : ~RowBefore(idx, b, a)
       IN <<m>> \o SortRows(idx, S \ {m})

\* The rows the cleanup cursor yields: rom_id, size_bytes, is_favorite
cleanup_rows(idx) ==
  LET order == SortRows(idx, Present(idx))
  IN [i \in 1..Len(order) |->
        [rom_id |-> order[i], size_bytes |-> idx[order[i]].size_bytes,
         is_favorite |-> idx[order[i]].is_favorite]]

\* list_cached_roms: ORDER BY last_accessed DESC
RECURSIVE SortRecent(_, _)
SortRecent(idx, S) ==
  IF S = {} THEN <<>>
  ELSE LET m == CHOOSE a \in S :
                  \A b \in S \ {a} : idx[a].last_accessed >= idx[b].last_accessed
       IN <<m>> \o SortRecent(idx, S \ {m})

list_cached_roms(idx) ==
  LET order == SortRecent(idx, Present(idx))
  IN [i \in 1..Len(order) |->
        [rom_id |-> order[i], size_bytes |-> idx[order[i]].size_bytes,
         last_accessed |-> idx[order[i]].last_accessed,
         priority_score |-> idx[order[i]].priority_score,
         is_favorite |-> idx[order[i]].is_favorite]]

\* ----------------------------------------------------------- the threads
IdleThread == [pc |-> "idle", op |-> None, rom |-> None, file_size |-> 0,
               fd |-> NoFd, plist |-> <<>>]

NoCleanup == [owner |-> None, rows |-> <<>>, bytes_to_free |-> 0,
              freed_bytes |-> 0, removed_roms |-> <<>>, ret |-> None]

Init ==
  /\ index = [r \in RomIds |-> NoEntry]
  /\ files = [p \in Paths |-> Absent]
  /\ config = InitConfig
  /\ clock = 1
  /\ th = [t \in Threads |-> IdleThread]
  /\ cl = NoCleanup
  /\ downloading_roms = [r \in AccessIds |-> None]
  /\ download_lock = None
  /\ api_downloading = [r \in RomIds |-> None]
  /\ ops = 0

\* Every thread that holds the open file at path `from` now holds it at
\* `to` (the file was renamed or unlinked under it).
Retarget(thr, from, to) ==
  [u \in Threads |-> IF thr[u].fd = from
                       THEN [thr[u] EXCEPT !.fd = to] ELSE thr[u]]

\* cache_path.unlink() as seen by the writers of that blob
Unlinked(thr, r) == Retarget(thr, get_cache_path(r), Gone)

\* Where thread t resumes at pc `ret` with record `rec`
Resume(rec, ret) == IF ret = "idle" THEN IdleThread ELSE [rec EXCEPT !.pc = ret]

\* ------------------------------------------------- cleanup_cache, the pass
\* cleanup_begin returning early only when bytes_to_free < 0
cleanup_begin_strict(t, target, ret, base) ==
  LET stats == get_cache_stats(index, config)
      bytes_to_free == target - stats.free_space
  IN /\ cl.owner = None
     /\ IF bytes_to_free < 0
          THEN /\ th' = [th EXCEPT ![t] = Resume(base, ret)]
               /\ cl' = cl
          ELSE /\ th' = [th EXCEPT ![t] = [base EXCEPT !.pc = "cleanup_loop"]]
               /\ cl' = [owner |-> t, rows |-> cleanup_rows(index),
                         bytes_to_free |-> bytes_to_free, freed_bytes |-> 0,
                         removed_roms |-> <<>>, ret |-> ret]

\* Lines 143-164: the cursor's rows, bytes_to_free, and the early return.
\* `base` is the caller's thread record, `ret` where the caller resumes.
cleanup_begin(t, target, ret, base) ==
  LET stats == get_cache_stats(index, config)
      bytes_to_free == target - stats.free_space
  IN /\ cl.owner = None
     /\ IF bytes_to_free <= 0
          THEN /\ th' = [th EXCEPT ![t] = Resume(base, ret)]
               /\ cl' = cl
          ELSE /\ th' = [th EXCEPT ![t] = [base EXCEPT !.pc = "cleanup_loop"]]
               /\ cl' = [owner |-> t, rows |-> cleanup_rows(index),
                         bytes_to_free |-> bytes_to_free, freed_bytes |-> 0,
                         removed_roms |-> <<>>, ret |-> ret]

\* enough_freed for a pass that goes through every row
enough_freed_never(freed_bytes, bytes_to_free) == FALSE

\* Lines 186-187: `if freed_bytes >= bytes_to_free: break`
enough_freed(freed_bytes, bytes_to_free) == freed_bytes >= bytes_to_free

\* cleanup_row without the favorite test of lines 172-174
cleanup_row_unprotected(t) ==
  /\ th[t].pc = "cleanup_loop"
  /\ cl.owner = t
  /\ cl.rows # <<>>
  /\ LET row == Head(cl.rows)
         freed == cl.freed_bytes + row.size_bytes
     IN IF is_cached(files, row.rom_id)
          THEN /\ files' = [files EXCEPT ![get_cache_path(row.rom_id)] = Absent]
               /\ th' = Unlinked(th, row.rom_id)
               /\ cl' = [cl EXCEPT
                    !.removed_roms = Append(cl.removed_roms, row.rom_id),
                    !.freed_bytes = freed,
                    !.rows = IF enough_freed(freed, cl.bytes_to_free)
                               THEN <<>> ELSE Tail(cl.rows)]
          ELSE /\ cl' = [cl EXCEPT !.rows = Tail(cl.rows)]
               /\ UNCHANGED <<files, th>>
  /\ UNCHANGED <<index, config, clock, downloading_roms, download_lock,
                 api_downloading, ops>>

\* Lines 167-187: one iteration of `for row in cursor`.
cleanup_row(t) ==
  /\ th[t].pc = "cleanup_loop"
  /\ cl.owner = t
  /\ cl.rows # <<>>
  /\ LET row == Head(cl.rows)
         freed == cl.freed_bytes + row.size_bytes
     IN IF row.is_favorite /\ config.favorite_protection
          THEN /\ cl' = [cl EXCEPT !.rows = Tail(cl.rows)]
               /\ UNCHANGED <<files, th>>
          ELSE IF is_cached(files, row.rom_id)
            THEN /\ files' = [files EXCEPT ![get_cache_path(row.rom_id)] = Absent]
                 /\ th' = Unlinked(th, row.rom_id)
                 /\ cl' = [cl EXCEPT
                      !.removed_roms = Append(cl.removed_roms, row.rom_id),
                      !.freed_bytes = freed,
                      !.rows = IF enough_freed(freed, cl.bytes_to_free)
                                 THEN <<>> ELSE Tail(cl.rows)]
            ELSE /\ cl' = [cl EXCEPT !.rows = Tail(cl.rows)]
                 /\ UNCHANGED <<files, th>>
  /\ UNCHANGED <<index, config, clock, downloading_roms, download_lock,
                 api_downloading, ops>>

\* cleanup_commit whose DELETE has no WHERE clause
cleanup_commit_all_rows(t) ==
  /\ th[t].pc = "cleanup_loop"
  /\ cl.owner = t
  /\ cl.rows = <<>>
  /\ index' = [r \in DOMAIN index |-> NoEntry]
  /\ th' = [th EXCEPT ![t] = Resume(th[t], cl.ret)]
  /\ cl' = NoCleanup
  /\ UNCHANGED <<files, config, clock, downloading_roms, download_lock,
                 api_downloading, ops>>

\* Lines 189-192: conn.commit() makes the DELETEs visible; removed_roms is
\* returned to the caller.
cleanup_commit(t) ==
  /\ th[t].pc = "cleanup_loop"
  /\ cl.owner = t
  /\ cl.rows = <<>>
  /\ index' = [r \in DOMAIN index |->
                 IF r \in Range(cl.removed_roms) THEN NoEntry ELSE index[r]]
  /\ th' = [th EXCEPT ![t] = Resume(th[t], cl.ret)]
  /\ cl' = NoCleanup
  /\ UNCHANGED <<files, config, clock, downloading_roms, download_lock,
                 api_downloading, ops>>

\* ------------------------------------------------------------ add_to_cache
\* What the caller of add_to_cache does with its outcome: the direct caller
\* and the background task are done, preload_popular_roms goes on with its
\* list (lines 551-553 of the integration layer), _download_rom_async
\* reaches its finally block (lines 428-435).
AfterAddToCache(rec) ==
  IF rec.op = "preload"
    THEN [IdleThread EXCEPT !.pc = "preload_next", !.op = "preload",
                            !.plist = rec.plist]
  ELSE IF rec.op = "download_rom_async"
    THEN [rec EXCEPT !.pc = "dra_finally", !.file_size = 0]
  ELSE IF rec.op = "cache_rom"
    THEN [rec EXCEPT !.pc = "cache_rom_false", !.file_size = 0]
    ELSE IdleThread

\* What the caller does when add_to_cache returns True: _download_rom_async
\* goes on to update_cached_file (lines 419-421).
AfterSuccess(rec) ==
  IF rec.op = "download_rom_async"
    THEN [rec EXCEPT !.pc = "dra_update", !.file_size = 0]
  ELSE IF rec.op = "cache_rom"
    THEN [rec EXCEPT !.pc = "cache_rom_true", !.file_size = 0]
    ELSE AfterAddToCache(rec)

\* _download_rom_task, lines 416-421: the status the task records.
TaskStatus(t, result) ==
  IF th[t].op = "api_task"
    THEN [api_downloading EXCEPT ![th[t].rom] =
            IF result = "ok" THEN "completed" ELSE "error"]
    ELSE api_downloading

\* Lines 198-200, entered with the caller's record `base`:
\* if self.needs_cleanup(): self.cleanup_cache()
add_to_cache(t, base) ==
  IF needs_cleanup(index, config)
    THEN cleanup_begin(t, config.min_free_space, "atc_get", base)
    ELSE /\ th' = [th EXCEPT ![t] = [base EXCEPT !.pc = "atc_get"]]
         /\ cl' = cl

\* Lines 258-262: except: unlink cache_path if it exists; raise e.  The
\* exception reaches the caller.
add_to_cache_except(t) ==
  LET r == th[t].rom
  IN /\ files' = IF is_cached(files, r)
                   THEN [files EXCEPT ![get_cache_path(r)] = Absent]
                   ELSE files
     /\ th' = [Unlinked(th, r) EXCEPT ![t] = AfterAddToCache(th[t])]
     /\ api_downloading' = TaskStatus(t, "raised")

\* Lines 226-227: open(temp_path, 'wb') creates the file or truncates the
\* one that is there.
add_to_cache_open(t, base) ==
  /\ files' = [files EXCEPT ![temp_path(base.rom)] = File(0)]
  /\ th' = [th EXCEPT ![t] = [base EXCEPT !.pc = "atc_writing",
                                           !.fd = temp_path(base.rom)]]

\* Lines 206-207: requests.get / raise_for_status fails.
add_to_cache_http_error(t) ==
  /\ th[t].pc = "atc_get"
  /\ add_to_cache_except(t)
  /\ UNCHANGED <<index, config, clock, cl, downloading_roms, download_lock, ops>>

\* Lines 206-227: the response arrives with its content-length; the
\* pre-flight space check, the cleanup it starts when space is short, the
\* temporary file otherwise.
add_to_cache_get(t) ==
  /\ th[t].pc = "atc_get"
  /\ \E file_size \in Advertised(th[t].rom) :
       LET stats == get_cache_stats(index, config)
           available_space == config.max_size - stats.total_size
           base == [th[t] EXCEPT !.file_size = file_size]
       IN IF file_size > available_space
            THEN /\ cleanup_begin(t, file_size + config.min_free_space,
                                  "atc_recheck", base)
                 /\ files' = files
            ELSE /\ add_to_cache_open(t, base)
                 /\ cl' = cl
  /\ UNCHANGED <<index, config, clock, downloading_roms, download_lock,
                 api_downloading, ops>>

\* Lines 219-227: re-check after the cleanup; raise when still short.
add_to_cache_recheck(t) ==
  /\ th[t].pc = "atc_recheck"
  /\ LET stats == get_cache_stats(index, config)
         available_space == config.max_size - stats.total_size
     IN IF th[t].file_size > available_space
          THEN add_to_cache_except(t)
          ELSE /\ add_to_cache_open(t, th[t])
               /\ api_downloading' = api_downloading
  /\ UNCHANGED <<index, config, clock, cl, downloading_roms, download_lock, ops>>

\* Lines 228-229: the chunks are written through the open descriptor, which
\* follows the file when another thread renamed or unlinked it meanwhile.
add_to_cache_write(t) ==
  /\ th[t].pc = "atc_writing"
  /\ LET r == th[t].rom
         at == th[t].fd
     IN files' = IF at = Gone THEN files
                 ELSE [files EXCEPT ![at] = File(ActualSize(r))]
  /\ th' = [th EXCEPT ![t].pc = "atc_rename", ![t].fd = NoFd]
  /\ UNCHANGED <<index, config, clock, cl, downloading_roms,
                 download_lock, api_downloading, ops>>

\* Lines 228-229: iter_content or f.write raises in mid-transfer.
add_to_cache_write_error(t) ==
  /\ th[t].pc = "atc_writing"
  /\ add_to_cache_except(t)
  /\ UNCHANGED <<index, config, clock, cl, downloading_roms, download_lock, ops>>

\* Line 232: temp_path.rename(cache_path); it raises when the temporary
\* file is no longer there.
add_to_cache_rename(t) ==
  /\ th[t].pc = "atc_rename"
  /\ LET r == th[t].rom
     IN IF files[temp_path(r)] = Absent
          THEN add_to_cache_except(t)
          ELSE /\ files' = [files EXCEPT ![get_cache_path(r)] = files[temp_path(r)],
                                         ![temp_path(r)] = Absent]
               /\ th' = [Retarget(Unlinked(th, r), temp_path(r), get_cache_path(r))
                           EXCEPT ![t].pc = "atc_insert"]
               /\ api_downloading' = api_downloading
  /\ UNCHANGED <<index, config, clock, cl, downloading_roms, download_lock, ops>>

\* Line 232: the operating system refuses the rename.
add_to_cache_rename_error(t) ==
  /\ th[t].pc = "atc_rename"
  /\ add_to_cache_except(t)
  /\ UNCHANGED <<index, config, clock, cl, downloading_roms, download_lock, ops>>

\* The row add_to_cache stores, lines 235-252: INSERT OR REPLACE leaves
\* is_favorite at its column default.
new_entry(r, file_size, now) ==
  [present |-> TRUE, size_bytes |-> file_size, last_accessed |-> now,
   priority_score |-> calculate_priority_score(file_size, FALSE, 0, PlatformOf(r)),
   is_favorite |-> FALSE]

\* Lines 235-256: the entry is inserted and committed; return True.
add_to_cache_insert(t) ==
  /\ th[t].pc = "atc_insert"
  /\ cl.owner = None
  /\ index' = [index EXCEPT ![th[t].rom] =
                 new_entry(th[t].rom, th[t].file_size, clock)]
  /\ clock' = clock + 1
  /\ th' = [th EXCEPT ![t] = AfterSuccess(th[t])]
  /\ api_downloading' = TaskStatus(t, "ok")
  /\ UNCHANGED <<files, config, cl, downloading_roms, download_lock, ops>>

\* Lines 246-253: the INSERT or its commit raises.
add_to_cache_insert_error(t) ==
  /\ th[t].pc = "atc_insert"
  /\ add_to_cache_except(t)
  /\ UNCHANGED <<index, config, clock, cl, downloading_roms, download_lock, ops>>

\* ------------------------------------------------------ _build_download_url
\* Lines 437-453: the first server, in order, that maps the platform and
\* whose HEAD probe answers 200; None when there is none.  `probe` is what
\* each server answers.
RECURSIVE build_download_url_from(_, _, _)
build_download_url_from(i, platform, probe) ==
  IF i > Len(Servers) THEN None
  ELSE IF platform \in platform_paths[Servers[i]] /\ probe[Servers[i]] = "200"
    THEN Servers[i]
    ELSE build_download_url_from(i + 1, platform, probe)

\* _build_download_url that gives up after the first server
build_download_url_first_only(platform, probe) ==
  IF platform \in platform_paths[Servers[1]] /\ probe[Servers[1]] = "200"
    THEN Servers[1] ELSE None

build_download_url(platform, probe) == build_download_url_from(1, platform, probe)

Probes == [Range(Servers) -> ProbeResults]

\* ---------------------------------------- direct calls of the cache manager
\* add_to_cache called on the manager itself, as the test suites do.
direct_add_to_cache(t, r) ==
  /\ t \in Workers
  /\ th[t].pc = "idle"
  /\ ops < MaxOps
  /\ add_to_cache(t, [IdleThread EXCEPT !.op = "direct", !.rom = r])
  /\ ops' = ops + 1
  /\ UNCHANGED <<index, files, config, clock, downloading_roms,
                 download_lock, api_downloading>>

\* mark_accessed as an upsert: a missing row is created
mark_accessed_upsert(idx, r, now) ==
  IF idx[r].present THEN [idx EXCEPT ![r].last_accessed = now]
  ELSE [idx EXCEPT ![r] = [present |-> TRUE, size_bytes |-> 0,
                           last_accessed |-> now, priority_score |-> 0,
                           is_favorite |-> FALSE]]

\* mark_accessed, lines 264-274: UPDATE ... SET last_accessed = now
mark_accessed(idx, r, now) ==
  IF idx[r].present THEN [idx EXCEPT ![r].last_accessed = now] ELSE idx

\* set_favorite that also recomputes priority_score for the new flag
set_favorite_rescored(idx, r, is_favorite) ==
  IF idx[r].present
    THEN [idx EXCEPT ![r].is_favorite = is_favorite,
                     ![r].priority_score =
                       calculate_priority_score(idx[r].size_bytes, is_favorite,
                                                0, PlatformOf(r))]
    ELSE idx

\* set_favorite, lines 276-285: UPDATE ... SET is_favorite = ?
set_favorite(idx, r, is_favorite) ==
  IF idx[r].present THEN [idx EXCEPT ![r].is_favorite = is_favorite] ELSE idx

\* ------------------------------------------------------ the REST routes
\* PUT /api/roms/{rom_id}/favorite
update_rom_favorite(r, is_favorite) ==
  /\ th["api"].pc = "idle"
  /\ ops < MaxOps
  /\ cl.owner = None
  /\ index' = set_favorite(index, r, is_favorite)
  /\ ops' = ops + 1
  /\ UNCHANGED <<files, config, clock, th, cl, downloading_roms,
                 download_lock, api_downloading>>

\* PUT /api/cache/config: every field that is not None is assigned.
update_cache_config(max_size, favorite_protection) ==
  /\ th["api"].pc = "idle"
  /\ ops < MaxOps
  /\ config' = [config EXCEPT
       !.max_size = IF max_size.some THEN max_size.v ELSE @,
       !.favorite_protection =
          IF favorite_protection.some THEN favorite_protection.v ELSE @]
  /\ UNCHANGED <<index, files, clock, th, cl, downloading_roms,
                 download_lock, api_downloading>>
  /\ ops' = ops + 1

\* POST /api/cache/cleanup: cleanup_cache(target_free_gb) when force is set
\* or needs_cleanup(); a target of None is min_free_space_gb.  The
\* CleanupResponse carries the removed_roms the pass returns.
api_cleanup_cache(target_free, force) ==
  /\ th["api"].pc = "idle"
  /\ ops < MaxOps
  /\ IF force \/ needs_cleanup(index, config)
       THEN cleanup_begin("api",
              IF target_free.some THEN target_free.v ELSE config.min_free_space,
              "idle", [IdleThread EXCEPT !.op = "api_cleanup"])
       ELSE UNCHANGED <<th, cl>>
  /\ UNCHANGED <<index, files, config, clock, downloading_roms,
                 download_lock, api_downloading>>
  /\ ops' = ops + 1

\* POST /api/roms/download, lines 249-282.
download_rom(r) ==
  /\ th["api"].pc = "idle"
  /\ ops < MaxOps
  /\ api_downloading' =
       IF is_cached(files, r) \/ api_downloading[r] # None
         THEN api_downloading
         ELSE [api_downloading EXCEPT ![r] = "downloading"]
  /\ UNCHANGED <<index, files, config, clock, th, cl, downloading_roms,
                 download_lock>>
  /\ ops' = ops + 1

\* _download_rom_task, lines 396-418: the background task starts on the
\* event loop, resolves the URL and enters add_to_cache.
download_rom_task(r) ==
  /\ th["api"].pc = "idle"
  /\ api_downloading[r] = "downloading"
  /\ \E probe \in Probes :
       IF build_download_url(PlatformOf(r), probe) # None
         THEN /\ add_to_cache("api", [IdleThread EXCEPT !.op = "api_task",
                                                        !.rom = r])
              /\ api_downloading' = api_downloading
         ELSE /\ api_downloading' = [api_downloading EXCEPT ![r] = "error"]
              /\ UNCHANGED <<th, cl>>
  /\ UNCHANGED <<index, files, config, clock, downloading_roms,
                 download_lock, ops>>

\* Lines 423-425: after the sleep the status is dropped.
download_rom_task_expire(r) ==
  /\ th["api"].pc = "idle"
  /\ api_downloading[r] \in {"completed", "error"}
  /\ api_downloading' = [api_downloading EXCEPT ![r] = None]
  /\ UNCHANGED <<index, files, config, clock, th, cl, downloading_roms,
                 download_lock, ops>>

\* ------------------------------------------------------ handle_rom_access
\* Names bound while the body of handle_rom_access runs: its parameters
\* and locals (lines 362-382); the module binds no global of these names.
handle_rom_access_names == {"self", "rom_id", "symlink_path", "download_event"}

\* Lines 365-370: on a cache hit mark_accessed and return; otherwise go on
\* to the registry.
handle_rom_access(t, r) ==
  /\ t \in Accessors
  /\ th[t].pc = "idle"
  /\ ops < MaxOps
  /\ IF is_cached(files, r)
       THEN /\ cl.owner = None
            /\ index' = mark_accessed(index, r, clock)
            /\ clock' = IF index[r].present THEN clock + 1 ELSE clock
            /\ th' = th
       ELSE /\ th' = [th EXCEPT ![t] = [IdleThread EXCEPT !.pc = "hra_lock",
                                          !.op = "access", !.rom = r]]
            /\ UNCHANGED <<index, clock>>
  /\ UNCHANGED <<files, config, cl, downloading_roms, download_lock,
                 api_downloading>>
  /\ ops' = ops + 1

\* Lines 373-382: under download_lock, either find the rom downloading and
\* start waiting on its event with the lock still held, or register a new
\* event and leave the with-block.
handle_rom_access_register(t) ==
  /\ th[t].pc = "hra_lock"
  /\ download_lock = None
  /\ IF downloading_roms[th[t].rom] # None
       THEN /\ download_lock' = t
            /\ th' = [th EXCEPT ![t].pc = "hra_wait"]
            /\ UNCHANGED downloading_roms
       ELSE /\ downloading_roms' = [downloading_roms EXCEPT ![th[t].rom] = "clear"]
            /\ th' = [th EXCEPT ![t].pc = "hra_spawn"]
            /\ UNCHANGED download_lock
  /\ UNCHANGED <<index, files, config, clock, cl, api_downloading, ops>>

\* Lines 377-378: Event.wait() returns once the event is set; return
\* releases the lock.
handle_rom_access_wait(t) ==
  /\ th[t].pc = "hra_wait"
  /\ downloading_roms[th[t].rom] = "set"
  /\ download_lock' = None
  /\ th' = [th EXCEPT ![t] = IdleThread]
  /\ UNCHANGED <<index, files, config, clock, cl, downloading_roms,
                 api_downloading, ops>>

\* handle_rom_access_spawn whose except clause lacks download_event.set()
handle_rom_access_spawn_no_set(t) ==
  /\ th[t].pc = "hra_spawn"
  /\ "target_path" \notin handle_rom_access_names
  /\ th' = [th EXCEPT ![t].pc = "hra_pop"]
  /\ UNCHANGED <<index, files, config, clock, cl, downloading_roms,
                 download_lock, api_downloading, ops>>

\* Lines 384-394: building the Thread evaluates args=(rom_id, target_path,
\* download_event); target_path is not a bound name, the NameError is
\* caught by `except Exception`, no thread is started and the handler sets
\* the event.
handle_rom_access_spawn(t) ==
  /\ th[t].pc = "hra_spawn"
  /\ "target_path" \notin handle_rom_access_names
  /\ downloading_roms' = [downloading_roms EXCEPT ![th[t].rom] = "set"]
  /\ th' = [th EXCEPT ![t].pc = "hra_pop"]
  /\ UNCHANGED <<index, files, config, clock, cl, download_lock,
                 api_downloading, ops>>

\* Lines 395-396: with self.download_lock: self.downloading_roms.pop(rom_id)
handle_rom_access_pop(t) ==
  /\ th[t].pc = "hra_pop"
  /\ download_lock = None
  /\ downloading_roms' = [downloading_roms EXCEPT ![th[t].rom] = None]
  /\ th' = [th EXCEPT ![t] = IdleThread]
  /\ UNCHANGED <<index, files, config, clock, cl, download_lock,
                 api_downloading, ops>>

\* -------------------------------------------------------- the link manager
\* Path.is_symlink(): the entry itself is a symbolic link
is_symlink(fs, p) == fs[p] # Absent /\ "link" \in DOMAIN fs[p]

\* Path.is_dir(), for an entry that is not a link
is_dir(fs, p) == fs[p] # Absent /\ "dir" \in DOMAIN fs[p]

\* Path.exists(): follows a symbolic link to what it points at
path_exists(fs, p) ==
  IF is_symlink(fs, p) THEN fs[fs[p].link] # Absent ELSE fs[p] # Absent

\* What a reader that opens p gets: the size of the file it reaches, or
\* Nothing when there is no entry or the link dangles.
read_size(fs, p) ==
  IF ~path_exists(fs, p) THEN Nothing
  ELSE IF is_symlink(fs, p) THEN Some(fs[fs[p].link].size)
  ELSE Some(fs[p].size)

\* remove_link that reports a removal that failed
remove_link_reports_failure(fs, target_path, unlink_ok) ==
  [fs  |-> IF fs[target_path] # Absent /\ unlink_ok
             THEN [fs EXCEPT ![target_path] = Absent] ELSE fs,
   ret |-> fs[target_path] = Absent \/ unlink_ok]

\* CrossPlatformLinker.remove_link, lines 154-195: unlink a link or a file,
\* remove a directory or junction with its content; a failure of the
\* removal (unlink_ok false) is logged and swallowed.  The value returned
\* is True on every path.
remove_link(fs, target_path, unlink_ok) ==
  [fs  |-> IF fs[target_path] # Absent /\ unlink_ok
             THEN [fs EXCEPT ![target_path] = Absent] ELSE fs,
   ret |-> TRUE]

\* Path.touch(): create an empty file unless something is there; through a
\* dangling symbolic link it creates the file the link points at.
touch(fs, p) ==
  IF fs[p] = Absent THEN [fs EXCEPT ![p] = File(0)]
  ELSE IF is_symlink(fs, p) /\ fs[fs[p].link] = Absent
    THEN [fs EXCEPT ![fs[p].link] = File(0)]
  ELSE fs

\* create_link that makes no placeholder for a missing source
create_link_no_placeholder(fs, strategy, source_path, target_path, unlink_ok) ==
  LET cleared == IF fs[target_path] # Absent
                   THEN remove_link(fs, target_path, unlink_ok).fs ELSE fs
      stale == cleared[target_path] # Absent
      failed == [fs |-> cleared, ret |-> FALSE]
  IN IF strategy \in {"symlink", "devmode"}
       THEN IF stale THEN failed
            ELSE [fs  |-> [cleared EXCEPT ![target_path] = Symlink(source_path)],
                  ret |-> TRUE]
     ELSE IF strategy = "hardlink"
       THEN IF stale \/ cleared[source_path] = Absent THEN failed
            ELSE [fs  |-> [cleared EXCEPT ![target_path] = cleared[source_path]],
                  ret |-> TRUE]
     ELSE IF cleared[source_path] # Absent
       THEN IF is_symlink(cleared, target_path) THEN failed
            ELSE IF is_dir(cleared, target_path)
              THEN [fs |-> cleared, ret |-> TRUE]
            ELSE [fs  |-> [cleared EXCEPT ![target_path] = cleared[source_path]],
                  ret |-> TRUE]
     ELSE failed

\* CrossPlatformLinker.create_link, lines 106-152: the old entry is removed
\* (lines 113-114), then the strategy decides.  symlink_to does not look at
\* its source; hardlink_to needs the source to exist and makes a second
\* name for its content; both raise when the old entry is still there.
\* JUNCTION and COPY copy an existing source file (copy2 raises when the
\* target is a link to the source itself, and copies into a directory that
\* is still there) and touch() a placeholder otherwise.  Every exception is
\* caught: return False.
create_link(fs, strategy, source_path, target_path, unlink_ok) ==
  LET cleared == IF fs[target_path] # Absent
                   THEN remove_link(fs, target_path, unlink_ok).fs ELSE fs
      stale == cleared[target_path] # Absent
      failed == [fs |-> cleared, ret |-> FALSE]
  IN IF strategy \in {"symlink", "devmode"}
       THEN IF stale THEN failed
            ELSE [fs  |-> [cleared EXCEPT ![target_path] = Symlink(source_path)],
                  ret |-> TRUE]
     ELSE IF strategy = "hardlink"
       THEN IF stale \/ cleared[source_path] = Absent THEN failed
            ELSE [fs  |-> [cleared EXCEPT ![target_path] = cleared[source_path]],
                  ret |-> TRUE]
     ELSE IF cleared[source_path] # Absent
       THEN IF is_symlink(cleared, target_path) THEN failed
            ELSE IF is_dir(cleared, target_path)
              THEN [fs |-> cleared, ret |-> TRUE]
            ELSE [fs  |-> [cleared EXCEPT ![target_path] = cleared[source_path]],
                  ret |-> TRUE]
     ELSE [fs |-> touch(cleared, target_path), ret |-> TRUE]

\* CrossPlatformLinker.update_cached_file, lines 197-209: under COPY, and
\* when both paths exist, copy the blob over the target (copy2 raises, and
\* the exception is caught, when the target is a link to the blob itself);
\* nothing under the other strategies.
update_cached_file(fs, strategy, cache_path, target_path) ==
  IF strategy = "copy" /\ path_exists(fs, cache_path)
                       /\ path_exists(fs, target_path)
                       /\ ~is_symlink(fs, target_path)
                       /\ ~is_dir(fs, target_path)
    THEN [fs EXCEPT ![target_path] = fs[cache_path]]
    ELSE fs

\* ------------------------------------------------------ _download_rom_async
\* The body of the background thread, lines 398-435, run for rom r and the
\* path at which r is exposed.  handle_rom_access never gets as far as
\* starting it; here it is called on its own, with an event of its own.
\* Lines 425-426: the frame of a run whose download_url is None, on its
\* way to the finally clause.
NotFound(r) ==
  [pc |-> "dra_finally", op |-> "download_rom_async", rom |-> r,
   file_size |-> 0, fd |-> NoFd, plist |-> <<>>, download_url |-> None]

\* Lines 404-417: resolve the URL and hand the rom to add_to_cache.
download_rom_async(t, r) ==
  /\ t \in Workers
  /\ th[t].pc = "idle"
  /\ ops < MaxOps
  /\ \E probe \in Probes :
       IF build_download_url(PlatformOf(r), probe) # None
         THEN add_to_cache(t, [IdleThread EXCEPT !.op = "download_rom_async",
                                                 !.rom = r])
         ELSE /\ th' = [th EXCEPT ![t] = NotFound(r)]
              /\ cl' = cl
  /\ ops' = ops + 1
  /\ UNCHANGED <<index, files, config, clock, downloading_roms,
                 download_lock, api_downloading>>

\* Lines 419-423: cache_path = get_cache_path(rom_id);
\* self.linker.update_cached_file(cache_path, target_path)
download_rom_async_update(t) ==
  /\ th[t].pc = "dra_update"
  /\ files' = update_cached_file(files, config.strategy,
                                 get_cache_path(th[t].rom),
                                 exposed_path(th[t].rom))
  /\ th' = [th EXCEPT ![t].pc = "dra_finally"]
  /\ UNCHANGED <<index, config, clock, cl, downloading_roms,
                 download_lock, api_downloading, ops>>

\* Line 433: download_event.set(), on the event the body was given
download_rom_async_finally(t) ==
  /\ th[t].pc = "dra_finally"
  /\ th' = [th EXCEPT ![t].pc = "dra_pop"]
  /\ UNCHANGED <<index, files, config, clock, cl, downloading_roms,
                 download_lock, api_downloading, ops>>

\* download_rom_async_pop that leaves the handle registered
download_rom_async_pop_keeps_handle(t) ==
  /\ th[t].pc = "dra_pop"
  /\ download_lock = None
  /\ th' = [th EXCEPT ![t] = IdleThread]
  /\ UNCHANGED <<index, files, config, clock, cl, downloading_roms,
                 download_lock, api_downloading, ops>>

\* Lines 434-435: with self.download_lock: self.downloading_roms.pop(rom_id)
download_rom_async_pop(t) ==
  /\ th[t].pc = "dra_pop"
  /\ download_lock = None
  /\ downloading_roms' = [downloading_roms EXCEPT ![th[t].rom] = None]
  /\ th' = [th EXCEPT ![t] = IdleThread]
  /\ UNCHANGED <<index, files, config, clock, cl, download_lock,
                 api_downloading, ops>>

\* The threads that run _download_rom_async for rom r
DownloadThreads(r) ==
  {t \in Threads : th[t].op = "download_rom_async" /\ th[t].rom = r}

\* --------------------------------------------------- preload_popular_roms
\* Lines 528-538: the first `count` roms of the first server's listing.
preload_popular_roms(t, platform, count) ==
  /\ t \in Workers
  /\ th[t].pc = "idle"
  /\ ops < MaxOps
  /\ ops' = ops + 1
  /\ th' = [th EXCEPT ![t] = [IdleThread EXCEPT !.pc = "preload_next",
               !.op = "preload",
               !.plist = SubSeq(ServerRomList(platform), 1, count)]]
  /\ UNCHANGED <<index, files, config, clock, cl, downloading_roms,
                 download_lock, api_downloading>>

\* Lines 538-550: the next rom of the list: skipped when cached or when no
\* server has it, handed to add_to_cache otherwise.
preload_next(t) ==
  /\ th[t].pc = "preload_next"
  /\ th[t].plist # <<>>
  /\ LET r == Head(th[t].plist)
         rest == [th[t] EXCEPT !.plist = Tail(th[t].plist)]
     IN \E probe \in Probes :
          IF is_cached(files, r) \/ build_download_url(PlatformOf(r), probe) = None
            THEN /\ th' = [th EXCEPT ![t] = rest]
                 /\ cl' = cl
            ELSE add_to_cache(t, [rest EXCEPT !.rom = r])
  /\ UNCHANGED <<index, files, config, clock, downloading_roms,
                 download_lock, api_downloading, ops>>

\* The loop is over.
preload_end(t) ==
  /\ th[t].pc = "preload_next"
  /\ th[t].plist = <<>>
  /\ th' = [th EXCEPT ![t] = IdleThread]
  /\ UNCHANGED <<index, files, config, clock, cl, downloading_roms,
                 download_lock, api_downloading, ops>>

\* ------------------------------------------------------ the specification
Next ==
  \/ \E t \in Threads :
       \/ cleanup_row(t)
       \/ cleanup_commit(t)
       \/ add_to_cache_http_error(t)
       \/ add_to_cache_get(t)
       \/ add_to_cache_recheck(t)
       \/ add_to_cache_write(t)
       \/ add_to_cache_write_error(t)
       \/ add_to_cache_rename(t)
       \/ add_to_cache_rename_error(t)
       \/ add_to_cache_insert(t)
       \/ add_to_cache_insert_error(t)
       \/ handle_rom_access_register(t)
       \/ handle_rom_access_wait(t)
       \/ handle_rom_access_spawn(t)
       \/ handle_rom_access_pop(t)
       \/ preload_next(t)
       \/ preload_end(t)
       \/ \E r \in RomIds : direct_add_to_cache(t, r)
       \/ \E r \in RomIds : handle_rom_access(t, r)
       \/ \E count \in 1..2 : preload_popular_roms(t, "nes", count)
  \/ \E r \in RomIds, is_favorite \in BOOLEAN : update_rom_favorite(r, is_favorite)
  \/ \E max_size \in Optional(MaxSizeChoices),
        favorite_protection \in Optional(BOOLEAN) :
          update_cache_config(max_size, favorite_protection)
  \/ \E target_free \in Optional(TargetChoices), force \in BOOLEAN :
          api_cleanup_cache(target_free, force)
  \/ \E r \in RomIds : download_rom(r)
  \/ \E r \in RomIds : download_rom_task(r)
  \/ \E r \in RomIds : download_rom_task_expire(r)

Spec == Init /\ [][Next]_vars

TypeOK ==
  /\ \A r \in RomIds : index[r].present \in BOOLEAN
  /\ \A p \in Paths : files[p].exists \in BOOLEAN
  /\ ops \in 0..MaxOps

\* ------------------------------------------------------------ vocabulary
\* The program counters inside add_to_cache
AtcPcs == {"atc_get", "atc_recheck", "atc_writing", "atc_rename", "atc_insert"}

\* The operations that start an ingestion from the outside: the watcher's
\* background download, the REST download task, the preload.
EntryOps == {"download_rom_async", "api_task", "preload"}

\* Thread t holds an open HTTP response: from requests.get (line 206) until
\* the body is written out (line 229), the pre-flight cleanup included.
InTransfer(t) ==
  \/ th[t].pc \in {"atc_recheck", "atc_writing"}
  \/ th[t].pc = "cleanup_loop" /\ cl.owner = t /\ cl.ret = "atc_recheck"

\* Thread t leaves add_to_cache through its except clause in this step.
add_to_cache_raises(t) ==
  \/ add_to_cache_http_error(t)
  \/ add_to_cache_recheck(t) /\ th'[t].pc # "atc_writing"
  \/ add_to_cache_write_error(t)
  \/ add_to_cache_rename(t) /\ th'[t].pc # "atc_insert"
  \/ add_to_cache_rename_error(t)
  \/ add_to_cache_insert_error(t)

\* No operation is in progress.
Quiescent == cl.owner = None /\ \A t \in Threads : th[t].pc = "idle"

\* The committed entries as list_cached_roms reports them
Listed == list_cached_roms(index)

\* The favorites of the index
Favorites(idx) == {r \in Present(idx) : idx[r].is_favorite}

\* ------------------------------------------------------------------ C1
\* C1: when handle_rom_access has registered a handle for an uncached rom
\* and has gone past the statement that starts the background thread,
\* exactly one thread performs the download (add_to_cache) for that rom
\* for as long as the handle is registered; the other callers wait on it.
C1_OneDownloadPerHandle ==
  \A r \in RomIds :
    (/\ downloading_roms[r] # None
     /\ \A t \in Threads : ~(th[t].pc = "hra_spawn" /\ th[t].rom = r))
      => Cardinality(DownloadThreads(r)) = 1

\* ------------------------------------------------------------------ C2
\* C2: over the watcher's download, the REST download task and the
\* preload, at most one thread holds an open transfer for a given rom.
C2_AtMostOneTransfer ==
  \A r \in RomIds :
    Cardinality({t \in Threads : /\ th[t].rom = r
                                 /\ th[t].op \in EntryOps
                                 /\ InTransfer(t)}) <= 1

\* ------------------------------------------------------------------ C3
\* C3: the step on which add_to_cache returns success leaves the rom
\* cached, with an index record whose size_bytes is the number of bytes of
\* the blob on disk, whatever content-length was advertised.
C3_SuccessRecordsBlobSize ==
  [][\A t \in Threads :
       add_to_cache_insert(t) =>
         LET r == th[t].rom
         IN /\ is_cached(files', r)
            /\ index'[r].present
            /\ index'[r].size_bytes = files'[get_cache_path(r)].size]_vars

\* ------------------------------------------------------------------ C4
\* C4: the step on which add_to_cache raises leaves neither an index
\* record nor a blob for the rom.
C4_FailureLeavesNothing ==
  [][\A t \in Threads :
       add_to_cache_raises(t) =>
         /\ ~index'[th[t].rom].present
         /\ ~is_cached(files', th[t].rom)]_vars

\* ------------------------------------------------------------------ C5
\* C5: when every operation has completed, a rom has an index record
\* exactly when its blob exists, and the blob has size_bytes bytes.
C5_RecordIffBlob ==
  Quiescent =>
    \A r \in RomIds :
      /\ index[r].present <=> is_cached(files, r)
      /\ index[r].present =>
           files[get_cache_path(r)].size = index[r].size_bytes

\* ------------------------------------------------------------------ C6
\* C6: at every moment, a rom that is_cached reports has its complete blob
\* at the final path, and a record that the index shows has its blob on
\* disk.
C6_ReadersSeeCompleteBlobs ==
  \A r \in RomIds :
    /\ is_cached(files, r) => files[get_cache_path(r)].size = ActualSize(r)
    /\ index[r].present => is_cached(files, r)

\* ------------------------------------------------------------------ C7
\* C7: a step of a cleanup pass taken while favorite_protection is true
\* neither unlinks the blob of a favorite nor adds a favorite to
\* removed_roms, and the commit of a pass deletes from the index only the
\* roms of removed_roms.
C7_FavoritesSurviveCleanup ==
  [][\A t \in Threads :
       /\ (cleanup_row(t) /\ config.favorite_protection) =>
            \A r \in Favorites(index) :
              /\ files'[get_cache_path(r)] = files[get_cache_path(r)]
              /\ r \in Range(cl'.removed_roms) => r \in Range(cl.removed_roms)
       /\ cleanup_commit(t) =>
            \A r \in Present(index) :
              ~index'[r].present => r \in Range(cl.removed_roms)]_vars

\* A pass that could not free its target is through its rows with
\* protection on: it removed an entry and went past a favorite, which is
\* still in the index and on disk.
C7_Witness ==
  /\ cl.owner # None
  /\ cl.rows = <<>>
  /\ cl.freed_bytes < cl.bytes_to_free
  /\ cl.removed_roms # <<>>
  /\ config.favorite_protection
  /\ \E r \in Favorites(index) : is_cached(files, r)

\* ------------------------------------------------------------------ C8
\* C8: the total_size of get_cache_stats is the sum of size_bytes over
\* list_cached_roms and its total_files is the length of that list; both
\* are 0 on the fresh store.
C8_StatsAgreeWithList ==
  LET stats == get_cache_stats(index, config)
  IN /\ stats.total_size = SumSeq([i \in 1..Len(Listed) |-> Listed[i].size_bytes])
     /\ stats.total_files = Len(Listed)
     /\ Present(index) = {} => stats.total_size = 0 /\ stats.total_files = 0

\* Two entries of different sizes are listed.
C8_Witness ==
  /\ Len(Listed) = 2
  /\ Listed[1].size_bytes # Listed[2].size_bytes
  /\ Listed[1].size_bytes > 0
  /\ Listed[2].size_bytes > 0

\* ------------------------------------------------------------------ C9
\* C9: get_cache_stats never reports a negative free space, total or
\* usage, and reports usage 0 when max_size is not positive, whatever
\* max_size was set to at run time.
C9_StatsNeverNegative ==
  LET stats == get_cache_stats(index, config)
  IN /\ stats.free_space >= 0
     /\ stats.total_size >= 0
     /\ stats.usage_num >= 0
     /\ config.max_size <= 0 => stats.usage_num = 0

\* ------------------------------------------------------------------ C10
\* C10: an ingestion whose advertised size exceeds max_size fails the
\* pre-flight check, the cleanup it starts leaves in the index only
\* protected favorites, and the re-check raises without creating a
\* record, a blob or a temporary file for the rom.
C10_OversizeIsRejected ==
  [][\A t \in Threads :
       /\ (th[t].pc = "atc_get" /\ th'[t].pc = "atc_writing") =>
            th'[t].file_size <= config.max_size
       /\ (/\ cleanup_commit(t)
           /\ cl.ret = "atc_recheck"
           /\ th[t].file_size > config.max_size) =>
            \A r \in Present(index') :
              index'[r].is_favorite /\ config.favorite_protection
       /\ (add_to_cache_recheck(t) /\ th[t].file_size > config.max_size) =>
            /\ add_to_cache_raises(t)
            /\ index'[th[t].rom] = index[th[t].rom]
            /\ files'[temp_path(th[t].rom)] = files[temp_path(th[t].rom)]
            /\ ~is_cached(files, th[t].rom) => ~is_cached(files', th[t].rom)]_vars

\* ------------------------------------------------------------------ C11
\* The target the cleanup route passes on: target_free_gb, or
\* min_free_space_gb when the request has none (lines 145-146).
ApiTarget(target_free) ==
  IF target_free.some THEN target_free.v ELSE config.min_free_space

\* The cache manager on its own, as the cleanup route and the tests drive
\* it: ingestion, favorites, configuration updates and cleanup.
NextCleanup ==
  \/ \E t \in Threads :
       \/ cleanup_row(t)
       \/ cleanup_commit(t)
       \/ add_to_cache_http_error(t)
       \/ add_to_cache_get(t)
       \/ add_to_cache_recheck(t)
       \/ add_to_cache_write(t)
       \/ add_to_cache_write_error(t)
       \/ add_to_cache_rename(t)
       \/ add_to_cache_rename_error(t)
       \/ add_to_cache_insert(t)
       \/ add_to_cache_insert_error(t)
       \/ \E r \in RomIds : direct_add_to_cache(t, r)
  \/ \E r \in RomIds, is_favorite \in BOOLEAN : update_rom_favorite(r, is_favorite)
  \/ \E max_size \in Optional(MaxSizeChoices),
        favorite_protection \in Optional(BOOLEAN) :
          update_cache_config(max_size, favorite_protection)
  \/ \E target_free \in Optional(TargetChoices), force \in BOOLEAN :
          api_cleanup_cache(target_free, force)

SpecCleanup == Init /\ [][NextCleanup]_vars

\* C11: cleanup_cache with nothing to free is a no-op that returns the
\* empty list: a pass is entered only with bytes_to_free > 0, a call of the
\* cleanup route with bytes_to_free <= 0 returns at once and leaves the
\* index and the files as they are, and a pass over an empty index changes
\* neither and returns the empty removed_roms.
C11_NothingToFreeIsNoOp ==
  [][/\ (cl.owner = None /\ cl'.owner # None) => cl'.bytes_to_free > 0
     /\ \A target_free \in Optional(TargetChoices), force \in BOOLEAN :
          (/\ api_cleanup_cache(target_free, force)
           /\ force \/ needs_cleanup(index, config)
           /\ ApiTarget(target_free)
                - get_cache_stats(index, config).free_space <= 0)
            => /\ th'["api"].pc = "idle"
               /\ cl' = cl
               /\ index' = index
               /\ files' = files
     /\ \A t \in Threads :
          ((cleanup_row(t) \/ cleanup_commit(t)) /\ Present(index) = {})
            => /\ index' = index
               /\ files' = files
               /\ cl.removed_roms = <<>>]_vars

\* A pass is running over an empty index.
C11_Witness ==
  /\ cl.owner # None
  /\ cl.bytes_to_free > 0
  /\ Present(index) = {}
  /\ cl.removed_roms = <<>>

\* ------------------------------------------------------------------ C12
\* calculate_priority_score called on its own, as the test suites do
\* (test_priority_scoring): two callers, each with an entry and a platform.
ScorePlatforms == DOMAIN platforms_priority \cup {"unlisted"}
ScoreSizes == {50, 650, 6000}
ScoreHours == {1, 100, 720}
ScoreCalls ==
  [pc : {"cps_call"}, op : {"calculate_priority_score"}, rom : {None},
   file_size : {0}, fd : {NoFd}, plist : {<<>>},
   size_bytes : ScoreSizes, is_favorite : BOOLEAN,
   hours_since_access : ScoreHours, platform : ScorePlatforms, score : {0}]
ScoreCallers == {"w1", "w2"}

InitScore ==
  /\ index = [r \in RomIds |-> NoEntry]
  /\ files = [p \in Paths |-> Absent]
  /\ config = InitConfig
  /\ clock = 1
  /\ th \in [Threads -> ScoreCalls \cup {IdleThread}]
  /\ \A t \in Threads : th[t] = IdleThread <=> t \notin ScoreCallers
  /\ cl = NoCleanup
  /\ downloading_roms = [r \in AccessIds |-> None]
  /\ download_lock = None
  /\ api_downloading = [r \in RomIds |-> None]
  /\ ops = 0

\* Lines 111-136: the call returns the score.
calculate_priority_score_call(t) ==
  /\ th[t].pc = "cps_call"
  /\ th' = [th EXCEPT ![t].pc = "cps_return",
                      ![t].score = calculate_priority_score(
                         th[t].size_bytes, th[t].is_favorite,
                         th[t].hours_since_access, th[t].platform)]
  /\ UNCHANGED <<index, files, config, clock, cl, downloading_roms,
                 download_lock, api_downloading, ops>>

NextScore == \E t \in ScoreCallers : calculate_priority_score_call(t)

SpecScore == InitScore /\ [][NextScore]_vars

\* The call of thread t has returned for a favorite accessed 1 hour ago
ReturnedA(t) ==
  /\ th[t].pc = "cps_return"
  /\ th[t].is_favorite
  /\ th[t].hours_since_access = 1

\* The call of thread t has returned for a non-favorite of 650 MB accessed
\* 30 days ago
ReturnedB(t) ==
  /\ th[t].pc = "cps_return"
  /\ ~th[t].is_favorite
  /\ th[t].hours_since_access = 720
  /\ th[t].size_bytes = 650

\* C12: whatever the platforms of the two entries (listed in the default
\* table or not), the score of a favorite accessed 1 hour ago is strictly
\* greater than the score of a non-favorite of 650 MB accessed 30 days ago.
C12_FavoriteRecentOutranks ==
  \A a, b \in ScoreCallers :
    (ReturnedA(a) /\ ReturnedB(b)) => th[a].score > th[b].score

\* The closest case: the favorite is larger than 5 GB on an unlisted
\* platform, the other entry is on a platform of the highest priority.
C12_Witness ==
  /\ ReturnedA("w1")
  /\ th["w1"].platform = "unlisted"
  /\ th["w1"].size_bytes = 6000
  /\ ReturnedB("w2")
  /\ th["w2"].platform = "nes"
  /\ th["w1"].score = 140
  /\ th["w2"].score = 100

\* ------------------------------------------------------------------ C13
\* C13: in every state and for every rom, is_cached is true exactly when
\* the index holds a record for the rom; a file at the blob path without a
\* record does not make it true.
C13_CachedIffRecord ==
  \A r \in RomIds : is_cached(files, r) <=> index[r].present

\* ------------------------------------------------------------------ C14
\* The watcher's side on its own: accesses from two threads, and
\* add_to_cache called on the manager so that roms come to be cached.
NextAccess ==
  \E t \in Threads :
    \/ \E r \in RomIds : handle_rom_access(t, r)
    \/ handle_rom_access_register(t)
    \/ handle_rom_access_wait(t)
    \/ handle_rom_access_spawn(t)
    \/ handle_rom_access_pop(t)
    \/ \E r \in RomIds : direct_add_to_cache(t, r)
    \/ add_to_cache_http_error(t)
    \/ add_to_cache_get(t)
    \/ add_to_cache_recheck(t)
    \/ add_to_cache_write(t)
    \/ add_to_cache_write_error(t)
    \/ add_to_cache_rename(t)
    \/ add_to_cache_rename_error(t)
    \/ add_to_cache_insert(t)
    \/ add_to_cache_insert_error(t)
    \/ cleanup_row(t)
    \/ cleanup_commit(t)

\* A thread inside handle_rom_access that is not blocked goes on running.
LiveSpec ==
  /\ Init
  /\ [][NextAccess]_vars
  /\ \A t \in Threads :
       /\ WF_vars(handle_rom_access_register(t))
       /\ WF_vars(handle_rom_access_wait(t))
       /\ WF_vars(handle_rom_access_spawn(t))
       /\ WF_vars(handle_rom_access_pop(t))

\* C14: every handle registered in downloading_roms is eventually removed
\* from it, signalled first, and every thread waiting on a handle
\* eventually returns; the waiters and the registering thread never block
\* each other for good on download_lock.
C14_HandlesAreReleased ==
  /\ \A r \in RomIds :
       /\ downloading_roms[r] = "clear" ~> downloading_roms[r] = "set"
       /\ downloading_roms[r] # None ~> downloading_roms[r] = None
  /\ \A t \in Threads : th[t].pc = "hra_wait" ~> th[t].pc = "idle"

\* A thread waits, holding download_lock, on a handle that is not yet
\* signalled.
C14_Witness ==
  \E t \in Threads :
    /\ th[t].pc = "hra_wait"
    /\ download_lock = t
    /\ downloading_roms[th[t].rom] = "clear"

\* ------------------------------------------------------------------ C15
\* C15: a thread that handles an access never waits inside
\* handle_rom_access for a download to be over, neither when it registers
\* the handle itself nor when a handle for the rom is already registered.
C15_AccessNeverWaits ==
  \A t \in Threads : ~(th[t].op = "access" /\ th[t].pc = "hra_wait")

\* ------------------------------------------------------------------ C16
\* C16: download_lock is held for the check-and-register step only: no
\* thread holds it while it waits for a handle to be signalled.
C16_LockOnlyToRegister ==
  \A t \in Threads :
    download_lock = t =>
      ~(th[t].pc = "hra_wait" /\ downloading_roms[th[t].rom] = "clear")

\* ------------------------------------------------------------------ C17
\* C17: the step of handle_rom_access that starts the background thread
\* for an uncached rom with no handle in flight leaves a thread running
\* _download_rom_async for that rom.
C17_AccessStartsFetch ==
  [][\A t \in Threads :
       handle_rom_access_spawn(t) =>
         \E d \in Threads : /\ th'[d].op = "download_rom_async"
                            /\ th'[d].rom = th[t].rom]_vars

\* ---------------------------------------------------------------------
\* The exposed tree: links are created and removed by the link manager
\* under each of its strategies, EmulationStation's reads raise access
\* events, and _download_rom_async is run for the rom behind a path.

\* The linker is constructed with any of the strategies (line 37).
InitLink ==
  /\ index = [r \in RomIds |-> NoEntry]
  /\ files = [p \in Paths |-> Absent]
  /\ config \in {[InitConfig EXCEPT !.strategy = s] : s \in LinkStrategy}
  /\ clock = 1
  /\ th = [t \in Threads |-> IdleThread]
  /\ cl = NoCleanup
  /\ downloading_roms = [r \in AccessIds |-> None]
  /\ download_lock = None
  /\ api_downloading = [r \in RomIds |-> None]
  /\ ops = 0

\* linker.create_link(cache_path, target_path) for rom r
link_create(r) ==
  /\ ops < MaxOps
  /\ \E unlink_ok \in BOOLEAN :
       files' = create_link(files, config.strategy, get_cache_path(r),
                            exposed_path(r), unlink_ok).fs
  /\ ops' = ops + 1
  /\ UNCHANGED <<index, config, clock, th, cl, downloading_roms,
                 download_lock, api_downloading>>

\* linker.remove_link(target_path) for rom r
link_remove(r) ==
  /\ ops < MaxOps
  /\ \E unlink_ok \in BOOLEAN :
       files' = remove_link(files, exposed_path(r), unlink_ok).fs
  /\ ops' = ops + 1
  /\ UNCHANGED <<index, config, clock, th, cl, downloading_roms,
                 download_lock, api_downloading>>

\* _setup_platform_symlinks, lines 318-335, over the rest of the listing:
\* symlink_to where Path.exists() is false; symlink_to raises on a dangling
\* link that is already there, which ends the loop (line 316).
RECURSIVE setup_symlinks(_, _)
setup_symlinks(fs, rom_list) ==
  IF rom_list = <<>> THEN fs
  ELSE LET symlink_path == exposed_path(Head(rom_list))
           cache_path == get_cache_path(Head(rom_list))
       IN IF path_exists(fs, symlink_path)
            THEN setup_symlinks(fs, Tail(rom_list))
          ELSE IF fs[symlink_path] # Absent THEN fs
          ELSE setup_symlinks([fs EXCEPT ![symlink_path] = Symlink(cache_path)],
                              Tail(rom_list))

setup_platform_symlinks(platform) ==
  /\ ops < MaxOps
  /\ files' = setup_symlinks(files, ServerRomList(platform))
  /\ ops' = ops + 1
  /\ UNCHANGED <<index, config, clock, th, cl, downloading_roms,
                 download_lock, api_downloading>>

\* ROMAccessHandler.on_accessed, lines 246-258, for an access event on the
\* entry at which rom r is exposed: only a symbolic link goes on to
\* handle_rom_access, with the stem of the filename as its rom id.
on_accessed(t, r) ==
  /\ files[exposed_path(r)] # Absent
  /\ IF is_symlink(files, exposed_path(r))
       THEN handle_rom_access(t, extract_rom_id(exposed_path(r)))
       ELSE /\ t \in Accessors
            /\ th[t].pc = "idle"
            /\ ops < MaxOps
            /\ ops' = ops + 1
            /\ UNCHANGED <<index, files, config, clock, th, cl,
                           downloading_roms, download_lock, api_downloading>>

NextLink ==
  \/ \E r \in RomIds : link_create(r)
  \/ \E r \in RomIds : link_remove(r)
  \/ setup_platform_symlinks("nes")
  \/ \E t \in Threads :
       \/ \E r \in RomIds : on_accessed(t, r)
       \/ handle_rom_access_register(t)
       \/ handle_rom_access_wait(t)
       \/ handle_rom_access_spawn(t)
       \/ handle_rom_access_pop(t)
       \/ \E r \in AccessIds : download_rom_async(t, r)
       \/ download_rom_async_update(t)
       \/ download_rom_async_finally(t)
       \/ download_rom_async_pop(t)
       \/ add_to_cache_http_error(t)
       \/ add_to_cache_get(t)
       \/ add_to_cache_recheck(t)
       \/ add_to_cache_write(t)
       \/ add_to_cache_write_error(t)
       \/ add_to_cache_rename(t)
       \/ add_to_cache_rename_error(t)
       \/ add_to_cache_insert(t)
       \/ add_to_cache_insert_error(t)
       \/ cleanup_row(t)
       \/ cleanup_commit(t)

SpecLink == InitLink /\ [][NextLink]_vars

\* C18: when _download_rom_async has fetched rom r with success and has
\* updated the path P at which r is exposed, a reader of P gets the bytes
\* of r's blob, under every link strategy; P is not an empty placeholder
\* while the blob is cached.
C18_ExposedPathReflectsBlob ==
  [][\A t \in Threads :
       download_rom_async_update(t) =>
         LET cache_path == get_cache_path(th[t].rom)
             target_path == exposed_path(th[t].rom)
         IN (files'[cache_path] # Absent /\ files'[target_path] # Absent)
              => read_size(files', target_path)
                   = Some(files'[cache_path].size)]_vars

\* C19: an access event on the entry at which an uncached rom is exposed
\* makes the handler run handle_rom_access for it, whether the entry is a
\* symbolic link, a real file or an empty placeholder.
C19_EveryEntryTriggersAccess ==
  [][\A t \in Threads : \A r \in RomIds :
       (on_accessed(t, r) /\ ~is_cached(files, r))
         => th'[t].op = "access"]_vars

EntryKinds(r) ==
  {Absent, File(0), File(ActualSize(r)), Symlink(get_cache_path(r)), Dir}

InitRemove ==
  /\ index = [r \in RomIds |-> NoEntry]
  /\ files \in [Paths -> UNION {EntryKinds(r) : r \in RomIds}]
  /\ \A r \in RomIds :
       /\ files[exposed_path(r)] \in EntryKinds(r)
       /\ files[get_cache_path(r)] \in {Absent, File(ActualSize(r))}
       /\ files[temp_path(r)] = Absent
  /\ \A r \in AccessIds \ RomIds : files[get_cache_path(r)] = Absent
  /\ config \in {[InitConfig EXCEPT !.strategy = s] : s \in LinkStrategy}
  /\ clock = 1
  /\ th = [t \in Threads |-> IdleThread]
  /\ cl = NoCleanup
  /\ downloading_roms = [r \in AccessIds |-> None]
  /\ download_lock = None
  /\ api_downloading = [r \in RomIds |-> None]
  /\ ops = 0

\* What the caller of a link manager method holds when the method has
\* returned: the entry that was at the target, the outcome of the removal,
\* and the value returned.
LinkReturn(method, r, unlink_ok, ret) ==
  [pc |-> "link_return", op |-> method, rom |-> r, file_size |-> 0,
   fd |-> NoFd, plist |-> <<>>, had |-> files[exposed_path(r)],
   unlink_ok |-> unlink_ok, ret |-> ret]

\* linker.remove_link(target_path), with the value it returns
remove_link_call(t, r) ==
  /\ th[t].pc \in {"idle", "link_return"}
  /\ ops < MaxOps
  /\ \E unlink_ok \in BOOLEAN :
       LET out == remove_link(files, exposed_path(r), unlink_ok)
       IN /\ files' = out.fs
          /\ th' = [th EXCEPT ![t] = LinkReturn("remove_link", r, unlink_ok, out.ret)]
  /\ ops' = ops + 1
  /\ UNCHANGED <<index, config, clock, cl, downloading_roms, download_lock,
                 api_downloading>>

\* linker.create_link(cache_path, target_path), with the value it returns
create_link_call(t, r) ==
  /\ th[t].pc \in {"idle", "link_return"}
  /\ ops < MaxOps
  /\ \E unlink_ok \in BOOLEAN :
       LET out == create_link(files, config.strategy, get_cache_path(r),
                              exposed_path(r), unlink_ok)
       IN /\ files' = out.fs
          /\ th' = [th EXCEPT ![t] = LinkReturn("create_link", r, unlink_ok, out.ret)]
  /\ ops' = ops + 1
  /\ UNCHANGED <<index, config, clock, cl, downloading_roms, download_lock,
                 api_downloading>>

NextRemove ==
  \E t \in Workers, r \in RomIds :
    \/ remove_link_call(t, r)
    \/ create_link_call(t, r)

SpecRemove == InitRemove /\ [][NextRemove]_vars

\* Thread t has returned from `method`
Returned(t, method) == th[t].pc = "link_return" /\ th[t].op = method

\* C21: remove_link returns True whatever was at the target (nothing, a
\* link, a file, a directory) and whether or not the removal went
\* through; and a create_link whose removal of the old entry failed is not
\* stopped by it: under COPY and JUNCTION, over a file or a directory that
\* is still there, it goes on to its copy or placeholder and returns True.
C21_RemoveAlwaysSucceeds ==
  \A t \in Threads :
    /\ Returned(t, "remove_link") => th[t].ret
    /\ (/\ Returned(t, "create_link")
        /\ ~th[t].unlink_ok
        /\ th[t].had # Absent
        /\ "link" \notin DOMAIN th[t].had
        /\ config.strategy \in {"copy", "junction"})
         => th[t].ret

\* remove_link has returned from a removal that failed: the entry, a
\* directory, is still there.
C21_Witness ==
  \E t \in Threads :
    /\ Returned(t, "remove_link")
    /\ ~th[t].unlink_ok
    /\ th[t].had = Dir
    /\ files[exposed_path(th[t].rom)] = Dir

\* ------------------------------------------------------------------ C22
\* The cache manager with mark_accessed and set_favorite called on it
\* directly, as the test suites do, next to ingestions.
\* What the caller holds when the method has returned: the row the index
\* had for the rom when it was called.
DbReturn(method, r) ==
  [pc |-> "db_return", op |-> method, rom |-> r, file_size |-> 0,
   fd |-> NoFd, plist |-> <<>>, had |-> index[r]]

\* cache_manager.mark_accessed(rom_id), lines 264-274
mark_accessed_call(t, r) ==
  /\ t \in Accessors \ Workers
  /\ th[t].pc \in {"idle", "db_return"}
  /\ ops < MaxOps
  /\ cl.owner = None
  /\ index' = mark_accessed(index, r, clock)
  /\ clock' = IF index[r].present THEN clock + 1 ELSE clock
  /\ th' = [th EXCEPT ![t] = DbReturn("mark_accessed", r)]
  /\ ops' = ops + 1
  /\ UNCHANGED <<files, config, cl, downloading_roms, download_lock,
                 api_downloading>>

\* cache_manager.set_favorite(rom_id, is_favorite), lines 276-285
set_favorite_call(t, r, is_favorite) ==
  /\ t \in Accessors \ Workers
  /\ th[t].pc \in {"idle", "db_return"}
  /\ ops < MaxOps
  /\ cl.owner = None
  /\ index' = set_favorite(index, r, is_favorite)
  /\ th' = [th EXCEPT ![t] = DbReturn("set_favorite", r)]
  /\ ops' = ops + 1
  /\ UNCHANGED <<files, config, clock, cl, downloading_roms, download_lock,
                 api_downloading>>

NextTouch ==
  \E t \in Threads :
    \/ \E r \in RomIds : mark_accessed_call(t, r)
    \/ \E r \in RomIds, is_favorite \in BOOLEAN : set_favorite_call(t, r, is_favorite)
    \/ \E r \in RomIds : direct_add_to_cache(t, r)
    \/ add_to_cache_http_error(t)
    \/ add_to_cache_get(t)
    \/ add_to_cache_recheck(t)
    \/ add_to_cache_write(t)
    \/ add_to_cache_write_error(t)
    \/ add_to_cache_rename(t)
    \/ add_to_cache_rename_error(t)
    \/ add_to_cache_insert(t)
    \/ add_to_cache_insert_error(t)
    \/ cleanup_row(t)
    \/ cleanup_commit(t)

SpecTouch == Init /\ [][NextTouch]_vars

\* C22: mark_accessed and set_favorite for a rom that has no row return to
\* their caller, create no row, and leave every row and every file as it
\* was.
C22_AbsentRomIsNoOp ==
  [][\A t \in Threads : \A r \in RomIds :
       ((mark_accessed_call(t, r)
           \/ \E is_favorite \in BOOLEAN : set_favorite_call(t, r, is_favorite))
        /\ ~index[r].present)
         => /\ th'[t].pc = "db_return"
            /\ index' = index
            /\ files' = files]_vars

\* mark_accessed has returned for a rom without a row while another rom
\* has its row.
C22_Witness ==
  \E t \in Threads :
    /\ th[t].pc = "db_return"
    /\ th[t].op = "mark_accessed"
    /\ th[t].had = NoEntry
    /\ ~index[th[t].rom].present
    /\ \E r \in RomIds : index[r].present

\* ------------------------------------------------------------------ C23
\* test_concurrent_access: one thread per rom id, each calling add_to_cache
\* for its own id on an empty cache, with a server that serves every
\* asset; the thread function returns what add_to_cache returns, and False
\* when it raises.
RomOfThread(t) ==
  IF t = "w1" THEN "nes_super_mario_bros._2" ELSE "nes_super_mario_bros._3"

InitConcurrent ==
  /\ index = [r \in SequelIds |-> NoEntry]
  /\ files = [p \in {get_cache_path(r) : r \in SequelIds}
                      \cup {temp_path(r) : r \in SequelIds} |-> Absent]
  /\ config = InitConfig
  /\ clock = 1
  /\ th = [t \in Threads |-> IdleThread]
  /\ cl = NoCleanup
  /\ downloading_roms = [r \in AccessIds |-> None]
  /\ download_lock = None
  /\ api_downloading = [r \in RomIds |-> None]
  /\ ops = 0

cache_rom(t) ==
  /\ t \in Accessors
  /\ th[t].pc = "idle"
  /\ ops < MaxOps
  /\ add_to_cache(t, [IdleThread EXCEPT !.op = "cache_rom",
                                        !.rom = RomOfThread(t)])
  /\ ops' = ops + 1
  /\ UNCHANGED <<index, files, config, clock, downloading_roms,
                 download_lock, api_downloading>>

NextConcurrent ==
  \E t \in Threads :
    \/ cache_rom(t)
    \/ add_to_cache_get(t)
    \/ add_to_cache_write(t)
    \/ add_to_cache_rename(t)
    \/ add_to_cache_insert(t)

SpecConcurrent == InitConcurrent /\ [][NextConcurrent]_vars

\* C23: when the concurrent add_to_cache calls for distinct rom ids have
\* all returned, each returned True, and each rom has its row and a blob
\* with the bytes the server sent for it.
C23_ConcurrentIngestionsAllLand ==
  (\A t \in Accessors : th[t].pc \in {"cache_rom_true", "cache_rom_false"}) =>
    \A t \in Accessors :
      /\ th[t].pc = "cache_rom_true"
      /\ index[RomOfThread(t)].present
      /\ files[get_cache_path(RomOfThread(t))] = File(ActualSize(RomOfThread(t)))

\* ------------------------------------------------------------------ C24
\* The cache manager driven by one caller, as in the simple test suite:
\* add_to_cache and cleanup_cache called on it one after the other, with a
\* server that may fail. Three roms of 40, 30 and 35 units do not fit
\* together in the 100 units of InitConfig.
EvictIds == {"nes_super_mario_bros"} \cup SequelIds

\* target_free_gb values the pass is called with
EvictTargets == {50, 80, 300}

InitEvict ==
  /\ index = [r \in EvictIds |-> NoEntry]
  /\ files = [p \in {get_cache_path(r) : r \in EvictIds}
                      \cup {temp_path(r) : r \in EvictIds} |-> Absent]
  /\ config = InitConfig
  /\ clock = 1
  /\ th = [t \in Threads |-> IdleThread]
  /\ cl = NoCleanup
  /\ downloading_roms = [r \in AccessIds |-> None]
  /\ download_lock = None
  /\ api_downloading = [r \in RomIds |-> None]
  /\ ops = 0

ingest(t, r) ==
  /\ t \in Workers
  /\ th[t].pc = "idle"
  /\ ops < MaxEvictOps
  /\ add_to_cache(t, [IdleThread EXCEPT !.op = "direct", !.rom = r])
  /\ ops' = ops + 1
  /\ UNCHANGED <<index, files, config, clock, downloading_roms,
                 download_lock, api_downloading>>

\* cache_manager.cleanup_cache(target_free_gb=target)
cleanup_cache_call(t, target) ==
  /\ t \in Workers
  /\ th[t].pc = "idle"
  /\ ops < MaxEvictOps
  /\ cleanup_begin(t, target, "idle", [IdleThread EXCEPT !.op = "cleanup_cache"])
  /\ ops' = ops + 1
  /\ UNCHANGED <<index, files, config, clock, downloading_roms,
                 download_lock, api_downloading>>

NextEvict ==
  \E t \in Threads :
    \/ \E r \in EvictIds : ingest(t, r)
    \/ \E target \in EvictTargets : cleanup_cache_call(t, target)
    \/ add_to_cache_http_error(t)
    \/ add_to_cache_get(t)
    \/ add_to_cache_recheck(t)
    \/ add_to_cache_write(t)
    \/ add_to_cache_write_error(t)
    \/ add_to_cache_rename(t)
    \/ add_to_cache_rename_error(t)
    \/ add_to_cache_insert(t)
    \/ add_to_cache_insert_error(t)
    \/ cleanup_row(t)
    \/ cleanup_commit(t)

SpecEvict == InitEvict /\ [][NextEvict]_vars

\* Row q of the index is a favorite that the pass must skip
ProtectedFavorite(q) == index[q].is_favorite /\ config.favorite_protection

\* C24: at the end of a pass, every row that sorts before an evicted row
\* (lower priority_score, or the same priority_score and an older
\* last_accessed) and is not a protected favorite has been evicted too.
C24_EvictionFollowsOrder ==
  [][\A t \in Threads :
       cleanup_commit(t) =>
         \A r \in Range(cl.removed_roms) : \A q \in Present(index) :
           (RowBefore(index, q, r) /\ ~ProtectedFavorite(q))
             => q \in Range(cl.removed_roms)]_vars

\* ------------------------------------------------------------------ C25
\* The recorded sizes of the entries a pass has evicted, in eviction order
RemovedSizes == [i \in DOMAIN cl.removed_roms |->
                   index[cl.removed_roms[i]].size_bytes]

\* C25: a pass stops as soon as the budget is met: the recorded sizes of
\* the evicted entries without the last one add up to less than
\* bytes_to_free, during the pass and when it returns.
C25_StopsWhenBudgetMet ==
  (cl.owner # None /\ cl.removed_roms # <<>>)
    => SumSeq(SubSeq(RemovedSizes, 1, Len(RemovedSizes) - 1)) < cl.bytes_to_free

\* A pass that is about to return has evicted two entries, the first of
\* which was too small for the budget.
C25_Witness ==
  /\ cl.owner # None
  /\ cl.rows = <<>>
  /\ Len(cl.removed_roms) >= 2
  /\ RemovedSizes[1] > 0
  /\ cl.freed_bytes >= cl.bytes_to_free

\* ------------------------------------------------------------------ C26
\* An ingestion of r has failed and is over: its temporary file is still
\* on disk, no thread is inside add_to_cache for r, r is not cached.
FetchEndedInError(r) ==
  /\ files[temp_path(r)] # Absent
  /\ ~is_cached(files, r)
  /\ \A t \in Threads : ~(th[t].rom = r /\ th[t].pc \in AtcPcs)

\* C26: after a fetch of r has ended in error, r has no handle and is not
\* cached, and an access that then registers a handle for r leads to a
\* new download attempt for r: a thread running _download_rom_async.
C26_FailedFetchIsRetried ==
  \A r \in RomIds :
    (/\ FetchEndedInError(r)
     /\ \E t \in Threads : th[t].pc = "hra_spawn" /\ th[t].rom = r)
      ~> (DownloadThreads(r) # {})

\* ------------------------------------------------------------------ C27
\* The watcher's side without fairness conditions
SpecAccess == Init /\ [][NextAccess]_vars

\* C27: an access to a rom that has an index record sets that record's
\* last_accessed to the current time and does nothing else: the handler
\* has returned, no handle is registered, no file and no other field or
\* record changes.
C27_CachedAccessOnlyTouches ==
  [][\A t \in Threads : \A r \in RomIds :
       (handle_rom_access(t, r) /\ index[r].present) =>
         /\ index' = [index EXCEPT ![r].last_accessed = clock]
         /\ th'[t].pc = "idle"
         /\ UNCHANGED <<files, downloading_roms, download_lock>>]_vars

\* ------------------------------------------------------------------ C28
\* _build_download_url called for a platform against servers that answer
\* the HEAD probe with `probe`; the call and what it returned are kept in
\* the caller's frame.
UrlPlatforms == {"nes", "psx", "snes"}

UrlReturn(platform, probe, ret) ==
  [pc |-> "url_return", op |-> "_build_download_url", rom |-> None,
   file_size |-> 0, fd |-> NoFd, plist |-> <<>>,
   platform |-> platform, probe |-> probe, ret |-> ret]

build_download_url_call(t, platform, probe) ==
  /\ t \in Accessors
  /\ th[t].pc \in {"idle", "url_return"}
  /\ ops < MaxOps
  /\ th' = [th EXCEPT ![t] =
              UrlReturn(platform, probe, build_download_url(platform, probe))]
  /\ ops' = ops + 1
  /\ UNCHANGED <<index, files, config, clock, cl, downloading_roms,
                 download_lock, api_downloading>>

NextUrl ==
  \E t \in Threads, platform \in UrlPlatforms, probe \in Probes :
    build_download_url_call(t, platform, probe)

SpecUrl == Init /\ [][NextUrl]_vars

\* The positions, in configured order, of the servers that map the
\* platform and answer the probe with 200
Succeeding(platform, probe) ==
  {i \in DOMAIN Servers : /\ platform \in platform_paths[Servers[i]]
                          /\ probe[Servers[i]] = "200"}

\* C28: _build_download_url returns the first server, in configured order,
\* that covers the platform and whose probe succeeds, skipping servers
\* that do not cover it or whose probe fails, and None when there is none.
C28_FirstSucceedingServerWins ==
  \A t \in Threads :
    th[t].pc = "url_return" =>
      LET ok == Succeeding(th[t].platform, th[t].probe)
      IN IF ok = {} THEN th[t].ret = None
         ELSE \E i \in ok : /\ th[t].ret = Servers[i]
                            /\ \A j \in ok : i <= j

\* The first server's probe raised and the second server was chosen
C28_Witness ==
  \E t \in Threads :
    /\ th[t].pc = "url_return"
    /\ th[t].platform = "nes"
    /\ th[t].probe[Servers[1]] = "error"
    /\ th[t].ret = Servers[2]

\* ------------------------------------------------------------------ C29
\* Thread t runs _download_rom_async and has found no server with the rom
IsNotFound(t) ==
  th[t].op = "download_rom_async" /\ "download_url" \in DOMAIN th[t]

\* C29: a run of _download_rom_async for which no server has the rom calls
\* add_to_cache on none of its steps, leaves the index and every file as
\* they are, and ends with the rom's handle removed from downloading_roms
\* and the thread back to idle, without a further attempt.
C29_NotFoundLeavesNoTrace ==
  [][\A t \in Threads :
       /\ (\E r \in AccessIds : download_rom_async(t, r) /\ IsNotFound(t)')
            => /\ UNCHANGED <<index, files>>
               /\ th'[t].pc \notin AtcPcs
       /\ ((download_rom_async_finally(t) \/ download_rom_async_pop(t))
             /\ IsNotFound(t))
            => /\ UNCHANGED <<index, files>>
               /\ th'[t].pc \notin AtcPcs
               /\ DownloadThreads(th[t].rom)' \subseteq DownloadThreads(th[t].rom)
       /\ (download_rom_async_pop(t) /\ IsNotFound(t))
            => /\ downloading_roms'[th[t].rom] = None
               /\ th'[t] = IdleThread]_vars

\* A run that found no server is about to release a handle that an access
\* has registered for its rom.
C29_Witness ==
  \E t \in Threads :
    /\ IsNotFound(t)
    /\ th[t].pc = "dra_pop"
    /\ downloading_roms[th[t].rom] # None

\* ------------------------------------------------------------------ C30
\* C30: when add_to_cache raises after it has created its temporary file
\* (while writing the body, on the rename, or on the INSERT), the
\* temporary file of that rom is gone once the exception leaves
\* add_to_cache.
C30_FailureRemovesTempFile ==
  [][\A t \in Threads :
       (\/ add_to_cache_write_error(t)
        \/ add_to_cache_rename_error(t)
        \/ add_to_cache_insert_error(t))
         => files'[temp_path(th[t].rom)] = Absent]_vars

\* ------------------------------------------------------------------ C31
\* The score add_to_cache stores for a row: the platform's priority times
\* ten, the bonus of a row accessed this instant, no favorite bonus, and
\* the size term of the recorded size.
IngestionScore(r, size_bytes) ==
  (IF PlatformOf(r) \in DOMAIN platforms_priority
     THEN platforms_priority[PlatformOf(r)] * 10 ELSE 0)
  + RecentBonus
  + (IF size_bytes < SmallFileLimit THEN SmallFileBonus
     ELSE IF size_bytes > LargeFileLimit THEN -10 ELSE 0)

\* C31: every row holds the score computed when it was inserted, and a
\* step changes the score of a row that stays in the index only when it
\* is the INSERT of an ingestion of that rom; mark_accessed, set_favorite
\* and the cleanup pass leave it as it is.
C31_ScoreSetAtIngestionOnly ==
  [][\A r \in RomIds :
       index'[r].present =>
         /\ index'[r].priority_score = IngestionScore(r, index'[r].size_bytes)
         /\ (index[r].present
               /\ index'[r].priority_score # index[r].priority_score)
              => \E t \in Threads : add_to_cache_insert(t) /\ th[t].rom = r]_vars

\* set_favorite(rom, True) has returned for a rom with a row: the row is a
\* favorite and its score carries no favorite bonus.
C31_Witness ==
  \E t \in Threads :
    /\ th[t].pc = "db_return"
    /\ th[t].op = "set_favorite"
    /\ th[t].had # NoEntry
    /\ index[th[t].rom].present
    /\ index[th[t].rom].is_favorite
    /\ index[th[t].rom].priority_score
         = IngestionScore(th[t].rom, index[th[t].rom].size_bytes)

\* ------------------------------------------------------------------ C32
\* _detect_best_strategy with hard links as its last resort
detect_best_strategy_hardlink(win, can_create_symlinks, can_create_junctions) ==
  IF win
    THEN IF can_create_symlinks THEN "devmode"
         ELSE IF can_create_junctions THEN "junction"
         ELSE "hardlink"
    ELSE "symlink"

\* Lines 40-53: _detect_best_strategy, from sys.platform.startswith('win')
\* and what _can_create_symlinks and _can_create_junctions answer.
detect_best_strategy(win, can_create_symlinks, can_create_junctions) ==
  IF win
    THEN IF can_create_symlinks THEN "devmode"
         ELSE IF can_create_junctions THEN "junction"
         ELSE "copy"
    ELSE "symlink"

\* The platforms and probe answers a linker can be constructed under
Environments == [win : BOOLEAN, can_create_symlinks : BOOLEAN,
                 can_create_junctions : BOOLEAN]

\* CrossPlatformLinker.__init__ under environment env: the configuration
\* record carries the detected strategy next to the environment it was
\* detected in.
LinkerConfig(env) ==
  [max_size |-> InitConfig.max_size,
   cleanup_threshold |-> InitConfig.cleanup_threshold,
   min_free_space |-> InitConfig.min_free_space,
   favorite_protection |-> InitConfig.favorite_protection,
   strategy |-> detect_best_strategy(env.win, env.can_create_symlinks,
                                     env.can_create_junctions),
   env |-> env]

InitDetect ==
  /\ index = [r \in RomIds |-> NoEntry]
  /\ files = [p \in Paths |-> Absent]
  /\ config \in {LinkerConfig(env) : env \in Environments}
  /\ clock = 1
  /\ th = [t \in Threads |-> IdleThread]
  /\ cl = NoCleanup
  /\ downloading_roms = [r \in AccessIds |-> None]
  /\ download_lock = None
  /\ api_downloading = [r \in RomIds |-> None]
  /\ ops = 0

SpecDetect == InitDetect /\ [][NextLink]_vars

\* The link mechanism a LinkStrategy value stands for: SYMLINK and
\* DEVMODE_SYMLINK both make a symbolic link (lines 116-121).
StrategyKind(strategy) ==
  IF strategy \in {"symlink", "devmode"} THEN "SymbolicLink"
  ELSE IF strategy = "hardlink" THEN "HardLink"
  ELSE IF strategy = "junction" THEN "DirectoryJunction"
  ELSE "Copy"

\* C32: in every state the linker's strategy is the one its platform and
\* its two probes determine: a symbolic link off Windows; on Windows a
\* symbolic link when they can be created, else a junction when those can
\* be created, else a copy; never a hard link; and no create_link,
\* remove_link or update_cached_file changes it.
C32_StrategyIsDetectedOnce ==
  /\ StrategyKind(config.strategy) =
       (IF ~config.env.win THEN "SymbolicLink"
        ELSE IF config.env.can_create_symlinks THEN "SymbolicLink"
        ELSE IF config.env.can_create_junctions THEN "DirectoryJunction"
        ELSE "Copy")
  /\ config.strategy # "hardlink"

\* On Windows without symbolic links and without junctions, a link has
\* been created as a copy and the strategy is still the detected one.
C32_Witness ==
  /\ config.env.win
  /\ ~config.env.can_create_symlinks
  /\ ~config.env.can_create_junctions
  /\ config.strategy = "copy"
  /\ \E r \in RomIds : files[exposed_path(r)] # Absent

\* ------------------------------------------------------------------ C33
\* Ingestions from two threads on one cache manager, as in
\* test_concurrent_access, over three roms of 40, 30 and 35 units that do
\* not fit together in the 100 units of InitConfig; the server serves
\* every asset and the configuration is never updated.
cache_rom_thread(t, r) ==
  /\ t \in Accessors
  /\ th[t].pc \in {"idle", "cache_rom_true", "cache_rom_false"}
  /\ ops < MaxOps
  /\ add_to_cache(t, [IdleThread EXCEPT !.op = "cache_rom", !.rom = r])
  /\ ops' = ops + 1
  /\ UNCHANGED <<index, files, config, clock, downloading_roms,
                 download_lock, api_downloading>>

NextPreflight ==
  \E t \in Threads :
    \/ \E r \in EvictIds : cache_rom_thread(t, r)
    \/ add_to_cache_get(t)
    \/ add_to_cache_recheck(t)
    \/ add_to_cache_write(t)
    \/ add_to_cache_rename(t)
    \/ add_to_cache_rename_error(t)
    \/ add_to_cache_insert(t)
    \/ cleanup_row(t)
    \/ cleanup_commit(t)

SpecPreflight == InitEvict /\ [][NextPreflight]_vars

\* C33: when every row records the real size of its rom (the
\* content-length the server advertised was the length of the body), the
\* sum of the recorded sizes is at most max_size in every state,
\* ingestions of distinct roms running side by side included.
C33_TotalWithinMaxSize ==
  (\A r \in Present(index) : index[r].size_bytes = ActualSize(r))
    => TotalSize(index) <= config.max_size

\* ------------------------------------------------------------------ C34
\* C34: a row that is a favorite stays a favorite for as long as it is in
\* the index, unless set_favorite(rom, False) is called: a re-ingestion of
\* its rom keeps the flag.
C34_FavoriteSurvivesReingestion ==
  [][\A r \in RomIds :
       (/\ index[r].present /\ index[r].is_favorite
        /\ index'[r].present /\ ~index'[r].is_favorite)
         => \E t \in Threads : set_favorite_call(t, r, FALSE)]_vars

\* ------------------------------------------------------------------ C35
\* C35: when a pass returns, the free space is at least the target it was
\* called with (bytes_to_free more than the free space it started from),
\* or every row left in the index is a protected favorite.
C35_CleanupMeetsTarget ==
  [][\A t \in Threads :
       cleanup_commit(t) =>
         \/ get_cache_stats(index', config).free_space
              >= get_cache_stats(index, config).free_space + cl.bytes_to_free
         \/ \A q \in Present(index') : ProtectedFavorite(q)]_vars

\* ------------------------------------------------------------------ C36
\* C36: when add_to_cache has found needs_cleanup() true and its
\* cleanup_cache() call has returned, needs_cleanup() is false, unless
\* every row left is a protected favorite.
C36_ProactiveCleanupClearsPressure ==
  [][\A t \in Threads :
       (\/ /\ \E r \in EvictIds : ingest(t, r)
           /\ needs_cleanup(index, config)
           /\ th'[t].pc = "atc_get"
        \/ /\ cleanup_commit(t)
           /\ cl.ret = "atc_get")
         => \/ ~needs_cleanup(index', config)
            \/ \A q \in Present(index') : ProtectedFavorite(q)]_vars

\* ------------------------------------------------------------------ C37
\* C37: the step on which add_to_cache raises for a rom that has a row
\* and a blob leaves that row and that blob as they were.
C37_FailedRefetchKeepsAsset ==
  [][\A t \in Threads :
       (/\ add_to_cache_raises(t)
        /\ index[th[t].rom].present
        /\ is_cached(files, th[t].rom))
         => /\ index'[th[t].rom] = index[th[t].rom]
            /\ files'[get_cache_path(th[t].rom)]
                 = files[get_cache_path(th[t].rom)]]_vars

\* ------------------------------------------------------------------ C38
\* C38: for every link that _setup_platform_symlinks creates, the rom id
\* that _extract_rom_id gives for the link's path is the rom id whose blob
\* path the link points at.
C38_ExtractedIdIsLinkedId ==
  [][setup_platform_symlinks("nes") =>
       \A r \in Range(ServerRomList("nes")) :
         (files[exposed_path(r)] = Absent /\ is_symlink(files', exposed_path(r)))
           => get_cache_path(extract_rom_id(exposed_path(r)))
                = files'[exposed_path(r)].link]_vars

\* ------------------------------------------------------------------ C39
\* C39: each iteration of a pass unlinks at most one blob, that of the rom
\* it appends to removed_roms, and touches no other file; when the pass
\* returns, removed_roms names each rom once, the rows it names are the
\* rows that left the index, their blobs are gone, and every other row is
\* as it was.
C39_ReturnedListIsWhatWasRemoved ==
  [][\A t \in Threads :
       /\ cleanup_row(t) =>
            /\ \A p \in DOMAIN files :
                 files'[p] # files[p] =>
                   /\ Len(cl'.removed_roms) = Len(cl.removed_roms) + 1
                   /\ p = get_cache_path(cl'.removed_roms[Len(cl'.removed_roms)])
                   /\ files'[p] = Absent
            /\ cl'.removed_roms # cl.removed_roms =>
                 /\ SubSeq(cl'.removed_roms, 1, Len(cl.removed_roms)) = cl.removed_roms
                 /\ files[get_cache_path(cl'.removed_roms[Len(cl'.removed_roms)])] # Absent
                 /\ files'[get_cache_path(cl'.removed_roms[Len(cl'.removed_roms)])] = Absent
       /\ cleanup_commit(t) =>
            /\ Cardinality(Range(cl.removed_roms)) = Len(cl.removed_roms)
            /\ \A r \in DOMAIN index :
                 IF r \in Range(cl.removed_roms)
                   THEN /\ index[r].present
                        /\ ~index'[r].present
                        /\ ~is_cached(files', r)
                   ELSE index'[r] = index[r]
            /\ files' = files]_vars

\* A pass is about to return a list with one rom while another rom keeps
\* its row and its blob.
C39_Witness ==
  /\ cl.owner # None
  /\ cl.rows = <<>>
  /\ Len(cl.removed_roms) = 1
  /\ \E q \in Present(index) :
       /\ q \notin Range(cl.removed_roms)
       /\ is_cached(files, q)
  /\ th[cl.owner].pc = "cleanup_loop"

\* ------------------------------------------------------------------ C40
\* C40: two threads that are inside add_to_cache for distinct rom ids
\* work on distinct blob paths and distinct temporary paths, and the
\* temporary path of the one is not the blob path of the other.
C40_DistinctIdsDistinctPaths ==
  \A t \in Threads : \A u \in Threads \ {t} :
    (/\ th[t].pc \in AtcPcs
     /\ th[u].pc \in AtcPcs
     /\ th[t].rom # th[u].rom)
      => /\ get_cache_path(th[t].rom) # get_cache_path(th[u].rom)
         /\ temp_path(th[t].rom) # temp_path(th[u].rom)
         /\ temp_path(th[t].rom) # get_cache_path(th[u].rom)

====
